---------------------------- MODULE Spec2Model ----------------------------
(***************************************************************************)
(* A model of generate_calendar.py: the fetch -> generate_ics ->           *)
(* write_calendar pipeline of main(), the timestamp conversion format_dt,  *)
(* and the file system steps of write_calendar seen by concurrent readers  *)
(* and by a second, overlapping run.                                       *)
(*                                                                         *)
(* Text is a sequence of pieces.  A piece is a string; the carriage        *)
(* return, the line feed and the NUL of a file hole are pieces of their    *)
(* own, and so is every occurrence of the text of a document marker, so    *)
(* that Python's substring test ("BEGIN:VCALENDAR" in text) is the test    *)
(* whether some piece equals the marker.                                   *)
(***************************************************************************)
EXTENDS Integers, Sequences, FiniteSets, TLC

(***************************************************************************)
(* Bounds of the model.                                                    *)
(***************************************************************************)
MaxEvents == 2
MaxTicks == 1
ChunkLen == 12

CR == "\r"
LF == "\n"
NUL == "\\0"
CRLF == <<CR, LF>>
BEGIN_VCALENDAR == "BEGIN:VCALENDAR"
END_VCALENDAR == "END:VCALENDAR"

(***************************************************************************)
(* Python values: None, an exception, a returned value.                    *)
(***************************************************************************)
None == [type |-> "NoneType"]
Raise(t, a) == [ok |-> FALSE, exc |-> [type |-> t, arg |-> a]]
Return(v) == [ok |-> TRUE, val |-> v]
NoExc == [type |-> "", arg |-> ""]

(***************************************************************************)
(* Timestamps.  An ISO-8601 string is modelled by what fromisoformat       *)
(* parses out of it: the wall-clock day of November 2025, the second of    *)
(* that day, the microseconds, and the zone designator (a literal Z, a     *)
(* numeric offset in minutes, or none: a naive timestamp).                 *)
(***************************************************************************)
DaySeconds == 24 * 60 * 60
ZoneZ == [kind |-> "Z", mins |-> 0]
ZoneOffset(m) == [kind |-> "offset", mins |-> m]
ZoneNaive == [kind |-> "naive", mins |-> 0]
Iso(d, h, m, s, us, z) ==
    [type |-> "str", day |-> d, sec |-> (h * 60 + m) * 60 + s, micro |-> us, zone |-> z]

Pad2(n) == IF n < 10 THEN "0" \o ToString(n) ELSE ToString(n)

\* strftime("%Y%m%dT%H%M%SZ") of the instant t, in seconds since
\* 2025-11-01T00:00:00 UTC: second precision, the microseconds are not printed.
strftime(t) ==
    LET d == t \div DaySeconds
        s == t % DaySeconds
    IN  "202511" \o Pad2(d + 1) \o "T" \o Pad2(s \div 3600)
            \o Pad2((s % 3600) \div 60) \o Pad2(s % 60) \o "Z"

\* The wall-clock seconds since the start of the month of a parsed timestamp.
WallSeconds(dt) == (dt.day - 1) * DaySeconds + dt.sec

\* dt_str.replace("Z", "+00:00") followed by fromisoformat: the UTC offset, in
\* minutes, that the parsed datetime carries, or "naive" when it carries none.
ParsedOffset(dt) ==
    IF dt.zone.kind = "Z" THEN [aware |-> TRUE, mins |-> 0]
    ELSE IF dt.zone.kind = "offset" THEN [aware |-> TRUE, mins |-> dt.zone.mins]
    ELSE [aware |-> FALSE, mins |-> 0]

\* datetime.astimezone(timezone.utc): an aware datetime is shifted by its own
\* offset, a naive one is taken to be in the host's local time zone (tz, the
\* host's UTC offset in minutes).
astimezone_utc(dt, tz) ==
    LET p == ParsedOffset(dt)
    IN  WallSeconds(dt) - 60 * (IF p.aware THEN p.mins ELSE tz)

\* format_dt(dt_str) on a host whose local UTC offset is tz minutes.
format_dt(dt_str, tz) ==
    IF dt_str = None THEN Raise("AttributeError", "replace")
    ELSE Return(strftime(astimezone_utc(dt_str, tz)))

\* datetime.utcnow().isoformat() when the clock reads t (UTC seconds since the
\* start of the month): the UTC wall clock, with no zone designator.
utcnow_isoformat(t) ==
    [type |-> "str", day |-> (t \div DaySeconds) + 1, sec |-> t % DaySeconds,
     micro |-> 0, zone |-> ZoneNaive]


(***************************************************************************)
(* Records of the remote data source.  A record is modelled by the fields  *)
(* generate_ics reads: properties["Event Name"]["title"] (a list of rich   *)
(* text runs, each with its plain_text), properties["ID"]["unique_id"]     *)
(* ["number"], and properties["Date"]["date"] (None, or a dictionary with  *)
(* "start" and an optional "end").                                         *)
(***************************************************************************)
Record(hasTitle, runs, hasId, uid, date) ==
    [hasTitle |-> hasTitle, title |-> runs, hasId |-> hasId, uid |-> uid, date |-> date]
DateRange(start, end) == [start |-> start, end |-> end]

JungleNight ==
    Record(TRUE, << <<"Jungle Night">> >>, TRUE, 42,
           DateRange(Iso(1, 22, 0, 0, 0, ZoneZ), Iso(2, 2, 0, 0, 0, ZoneZ)))
OpenEnded ==
    Record(TRUE, << <<"Liquid Sunday">>, <<" (late)">> >>, TRUE, 7,
           DateRange(Iso(15, 23, 30, 0, 500000, ZoneOffset(60)), None))
MarkerTitle ==
    Record(TRUE, << <<"x", BEGIN_VCALENDAR, CR, LF, END_VCALENDAR>> >>, TRUE, 8,
           DateRange(Iso(20, 1, 0, 59, 0, ZoneOffset(120)), Iso(20, 5, 0, 0, 0, ZoneOffset(120))))
BreakTitle ==
    Record(TRUE, << <<"a", CR, LF, "b">> >>, TRUE, 9,
           DateRange(Iso(21, 20, 0, 0, 0, ZoneOffset(-300)), Iso(22, 1, 0, 0, 0, ZoneOffset(-300))))
NoTitle ==
    Record(FALSE, <<>>, TRUE, 3,
           DateRange(Iso(3, 22, 0, 0, 0, ZoneZ), None))
NoRuns ==
    Record(TRUE, <<>>, TRUE, 4,
           DateRange(Iso(3, 22, 0, 0, 0, ZoneZ), Iso(3, 23, 0, 0, 0, ZoneZ)))
NoId ==
    Record(TRUE, << <<"Nameless">> >>, FALSE, 0,
           DateRange(Iso(4, 22, 0, 0, 0, ZoneZ), Iso(4, 23, 0, 0, 0, ZoneZ)))
NoDate ==
    Record(TRUE, << <<"Undated">> >>, TRUE, 5, None)
NoStart ==
    Record(TRUE, << <<"Unstarted">> >>, TRUE, 6, DateRange(None, None))

Records ==
    {JungleNight, OpenEnded, MarkerTitle, BreakTitle, NoTitle, NoRuns, NoId, NoDate, NoStart}

\* All sequences over S of length at most n.
SeqsUpTo(S, n) == UNION {[1..k -> S] : k \in 0..n}

(***************************************************************************)
(* generate_ics.                                                           *)
(***************************************************************************)
Header ==
    << <<BEGIN_VCALENDAR>>, <<"VERSION:2.0">>, <<"PRODID:-//DnB Events//Subscribed Calendar//EN">> >>

\* sep.join(lines): the lines, each a text, with sep between neighbours.
RECURSIVE Join(_, _)
Join(lines, sep) ==
    IF lines = <<>> THEN <<>>
    ELSE IF Len(lines) = 1 THEN lines[1]
    ELSE lines[1] \o sep \o Join(Tail(lines), sep)

\* The field reads of one loop iteration, in the order of the code: the first
\* failing read raises and nothing of the record is appended.
ReadTitle(e) ==
    IF ~e.hasTitle THEN Raise("KeyError", "Event Name")
    ELSE IF e.title = <<>> THEN Raise("IndexError", "list index out of range")
    ELSE Return(e.title[1])
ReadUid(e) ==
    IF ~e.hasId THEN Raise("KeyError", "ID") ELSE Return(e.uid)
ReadStart(e, tz) ==
    IF e.date = None THEN Raise("TypeError", "'NoneType' object is not subscriptable")
    ELSE format_dt(e.date.start, tz)
ReadEnd(e, tz) == format_dt(e.date.end, tz)

\* The lines one loop iteration appends for record e, when the clock reads
\* now and the host's UTC offset is tz; or the exception it raises.
EventLines(e, now, tz) ==
    LET title == ReadTitle(e)
        uid == ReadUid(e)
        start == ReadStart(e, tz)
        end == ReadEnd(e, tz)
        stamp == format_dt(utcnow_isoformat(now), tz)
    IN  IF ~title.ok THEN title
        ELSE IF ~uid.ok THEN uid
        ELSE IF ~start.ok THEN start
        ELSE IF ~end.ok THEN end
        ELSE Return(
            << <<"BEGIN:VEVENT">>,
               <<"UID:" \o ToString(uid.val)>>,
               <<"DTSTAMP:" \o stamp.val>>,
               <<"DTSTART:" \o start.val>> >>
            \o (IF end.val # "" THEN << <<"DTEND:" \o end.val>> >> ELSE <<>>)
            \o << <<"SUMMARY:">> \o title.val, <<"END:VEVENT">> >>)

(***************************************************************************)
(* write_calendar: the validation and the normalisation of the text.       *)
(***************************************************************************)
Contains(text, piece) == \E i \in 1..Len(text) : text[i] = piece
EndsWith(text, piece) == text # <<>> /\ text[Len(text)] = piece

\* The check for the closing marker is left out.
ValidationNoEnd(text) ==
    IF text = <<>> THEN Raise("ValueError", "empty calendar output location")
    ELSE IF ~Contains(text, BEGIN_VCALENDAR) THEN Raise("ValueError", "missing BEGIN:VCALENDAR")
    ELSE Return(text)

Validation(text) ==
    IF text = <<>> THEN Raise("ValueError", "empty calendar output location")
    ELSE IF ~Contains(text, BEGIN_VCALENDAR) THEN Raise("ValueError", "missing BEGIN:VCALENDAR")
    ELSE IF ~Contains(text, END_VCALENDAR) THEN Raise("ValueError", "missing END:VCALENDAR")
    ELSE Return(text)

Normalised(text) == IF EndsWith(text, LF) THEN text ELSE text \o <<LF>>


(***************************************************************************)
(* The state: the remote data source, the host (its UTC offset and its     *)
(* clock), the runs of the program, the output directory, and a reader of  *)
(* the target path.                                                        *)
(***************************************************************************)
VARIABLES
    remote,     \* the records the data source returns, in its order
    tz,         \* the host's local UTC offset, in minutes
    clock,      \* the host's clock: UTC seconds since the start of the month
    pc,         \* pc[r]: where run r is
    events,     \* events[r]: the result of fetch_events
    idx,        \* idx[r]: the record the loop of generate_ics is at
    lines,      \* lines[r]: the list generate_ics builds
    stamps,     \* stamps[r]: the clock readings of utcnow(), one per event
    ics_text,   \* ics_text[r]: the text main hands to write_calendar
    wtext,      \* wtext[r]: write_calendar's text after the normalisation
    exc,        \* exc[r]: the exception run r ended with
    wino,       \* wino[r]: the inode run r has open for writing (0: none)
    wpos,       \* wpos[r]: the offset of that file descriptor, in pieces
    dir,        \* dir[path]: the inode linked at path (0: no such file)
    data,       \* data[i]: the content of inode i
    before,     \* the file at the target path before any run started
    rpc,        \* where the reader is
    rino,       \* the inode the reader has open (0: open failed, no file)
    seen        \* what the reader's last read returned

vars ==
    <<remote, tz, clock, pc, events, idx, lines, stamps, ics_text, wtext, exc,
      wino, wpos, dir, data, before, rpc, rino, seen>>

Runs == {1, 2}
Paths == {"target", "tmp"}

\* path.with_suffix(path.suffix + ".tmp"): one fixed sibling of the target.
\* The text is written straight to the target path.
tmp_path_is_target == "target"

tmp_path == "tmp"

Absent == [exists |-> FALSE, text |-> <<>>]
File(text) == [exists |-> TRUE, text |-> text]
FileAt(path) == IF dir[path] = 0 THEN Absent ELSE File(data[dir[path]])

HostOffsets == {-300, 0, 60}
ClockStart == (14 * 24 + 22) * 3600

OldDoc == Join(Header \o << <<END_VCALENDAR>> >>, CRLF) \o <<LF>>
StaleTmp == <<BEGIN_VCALENDAR, CR, LF, "VERSION:2.0">>
FileSystems ==
    { [dir |-> [p \in Paths |-> 0], data |-> <<>>],
      [dir |-> [p \in Paths |-> IF p = "target" THEN 1 ELSE 0], data |-> <<OldDoc>>],
      [dir |-> [p \in Paths |-> IF p = "target" THEN 1 ELSE 2], data |-> <<OldDoc, StaleTmp>>] }

InitCommon ==
    /\ tz \in HostOffsets
    /\ clock = ClockStart
    /\ events = [r \in Runs |-> <<>>]
    /\ idx = [r \in Runs |-> 0]
    /\ lines = [r \in Runs |-> <<>>]
    /\ stamps = [r \in Runs |-> <<>>]
    /\ wtext = [r \in Runs |-> <<>>]
    /\ exc = [r \in Runs |-> NoExc]
    /\ wino = [r \in Runs |-> 0]
    /\ wpos = [r \in Runs |-> 0]
    /\ \E fs \in FileSystems :
          /\ dir = fs.dir
          /\ data = fs.data
          /\ before = IF fs.dir["target"] = 0 THEN Absent ELSE File(fs.data[fs.dir["target"]])
    /\ rpc = "idle"
    /\ rino = 0
    /\ seen = Absent

\* One run of main().
Init ==
    /\ InitCommon
    /\ remote \in SeqsUpTo(Records, MaxEvents)
    /\ pc = [r \in Runs |-> IF r = 1 THEN "main" ELSE "idle"]
    /\ ics_text = [r \in Runs |-> <<>>]

Fail(r, e) ==
    /\ pc' = [pc EXCEPT ![r] = "failed"]
    /\ exc' = [exc EXCEPT ![r] = e]

\* main, line 126: out_dir.mkdir(parents=True, exist_ok=True).
Mkdir(r) ==
    /\ pc[r] = "main"
    /\ pc' = [pc EXCEPT ![r] = "fetch"]
    /\ UNCHANGED <<remote, tz, clock, events, idx, lines, stamps, ics_text, wtext, exc,
                   wino, wpos, dir, data, before, rpc, rino, seen>>

MkdirFails(r) ==
    /\ pc[r] = "main"
    /\ Fail(r, [type |-> "OSError", arg |-> "mkdir"])
    /\ UNCHANGED <<remote, tz, clock, events, idx, lines, stamps, ics_text, wtext,
                   wino, wpos, dir, data, before, rpc, rino, seen>>

\* fetch_events: one request; the records in the order the service returns them.
Fetch(r) ==
    /\ pc[r] = "fetch"
    /\ events' = [events EXCEPT ![r] = remote]
    /\ pc' = [pc EXCEPT ![r] = "generate"]
    /\ UNCHANGED <<remote, tz, clock, idx, lines, stamps, ics_text, wtext, exc,
                   wino, wpos, dir, data, before, rpc, rino, seen>>

\* response.raise_for_status() raises, or the body has no "results".
FetchFails(r) ==
    /\ pc[r] = "fetch"
    /\ Fail(r, [type |-> "HTTPError", arg |-> "fetch_events"])
    /\ UNCHANGED <<remote, tz, clock, events, idx, lines, stamps, ics_text, wtext,
                   wino, wpos, dir, data, before, rpc, rino, seen>>

\* generate_ics, lines 52-56: the header.
GenerateBegin(r) ==
    /\ pc[r] = "generate"
    /\ lines' = [lines EXCEPT ![r] = Header]
    /\ idx' = [idx EXCEPT ![r] = 1]
    /\ pc' = [pc EXCEPT ![r] = "loop"]
    /\ UNCHANGED <<remote, tz, clock, events, stamps, ics_text, wtext, exc,
                   wino, wpos, dir, data, before, rpc, rino, seen>>

\* A record whose transform raises is skipped and the loop goes on.
GenerateEventSkip(r) ==
    /\ pc[r] = "loop"
    /\ idx[r] <= Len(events[r])
    /\ LET res == EventLines(events[r][idx[r]], clock, tz)
       IN  IF res.ok
           THEN /\ lines' = [lines EXCEPT ![r] = @ \o res.val]
                /\ stamps' = [stamps EXCEPT ![r] = Append(@, clock)]
           ELSE UNCHANGED <<lines, stamps>>
    /\ idx' = [idx EXCEPT ![r] = @ + 1]
    /\ UNCHANGED <<remote, tz, clock, pc, events, ics_text, wtext, exc,
                   wino, wpos, dir, data, before, rpc, rino, seen>>

\* generate_ics, lines 58-79: one iteration of the loop.
GenerateEvent(r) ==
    /\ pc[r] = "loop"
    /\ idx[r] <= Len(events[r])
    /\ LET res == EventLines(events[r][idx[r]], clock, tz)
       IN  IF res.ok
           THEN /\ lines' = [lines EXCEPT ![r] = @ \o res.val]
                /\ stamps' = [stamps EXCEPT ![r] = Append(@, clock)]
                /\ idx' = [idx EXCEPT ![r] = @ + 1]
                /\ UNCHANGED <<pc, exc>>
           ELSE /\ Fail(r, res.exc)
                /\ UNCHANGED <<lines, stamps, idx>>
    /\ UNCHANGED <<remote, tz, clock, events, ics_text, wtext,
                   wino, wpos, dir, data, before, rpc, rino, seen>>

\* The footer line is not appended.
GenerateEndNoFooter(r) ==
    /\ pc[r] = "loop"
    /\ idx[r] > Len(events[r])
    /\ ics_text' = [ics_text EXCEPT ![r] = Join(lines[r], CRLF)]
    /\ pc' = [pc EXCEPT ![r] = "validate"]
    /\ UNCHANGED <<remote, tz, clock, events, idx, lines, stamps, wtext, exc,
                   wino, wpos, dir, data, before, rpc, rino, seen>>

\* generate_ics, lines 81-82: the footer and the join; main, line 129.
GenerateEnd(r) ==
    /\ pc[r] = "loop"
    /\ idx[r] > Len(events[r])
    /\ ics_text' = [ics_text EXCEPT ![r] = Join(Append(lines[r], <<END_VCALENDAR>>), CRLF)]
    /\ pc' = [pc EXCEPT ![r] = "validate"]
    /\ UNCHANGED <<remote, tz, clock, events, idx, lines, stamps, wtext, exc,
                   wino, wpos, dir, data, before, rpc, rino, seen>>

\* write_calendar, lines 86-99: the three checks, then the trailing newline.
Validate(r) ==
    /\ pc[r] = "validate"
    /\ LET v == Validation(ics_text[r])
       IN  IF v.ok
           THEN /\ wtext' = [wtext EXCEPT ![r] = Normalised(v.val)]
                /\ pc' = [pc EXCEPT ![r] = "open"]
                /\ UNCHANGED exc
           ELSE /\ Fail(r, v.exc)
                /\ UNCHANGED wtext
    /\ UNCHANGED <<remote, tz, clock, events, idx, lines, stamps, ics_text,
                   wino, wpos, dir, data, before, rpc, rino, seen>>


(***************************************************************************)
(* write_calendar, lines 101-107: tmp_path.write_text, tmp_path.replace.   *)
(* write_text opens the file for writing, which creates it or truncates    *)
(* the inode already linked there, writes the text through the descriptor  *)
(* in chunks, and closes.                                                  *)
(***************************************************************************)
Min(a, b) == IF a < b THEN a ELSE b
Max(a, b) == IF a < b THEN b ELSE a

\* The content of a file after chunk is written at offset pos: a write past
\* the end leaves a hole of NULs.
WriteAt(content, pos, chunk) ==
    [i \in 1..Max(Len(content), pos + Len(chunk)) |->
        IF i > pos /\ i <= pos + Len(chunk) THEN chunk[i - pos]
        ELSE IF i <= Len(content) THEN content[i]
        ELSE NUL]

WriteError == [type |-> "RuntimeError", arg |-> "Failed writing"]

OpenTmp(r) ==
    /\ pc[r] = "open"
    /\ IF dir[tmp_path] = 0
       THEN /\ data' = Append(data, <<>>)
            /\ dir' = [dir EXCEPT ![tmp_path] = Len(data) + 1]
            /\ wino' = [wino EXCEPT ![r] = Len(data) + 1]
       ELSE /\ data' = [data EXCEPT ![dir[tmp_path]] = <<>>]
            /\ wino' = [wino EXCEPT ![r] = dir[tmp_path]]
            /\ UNCHANGED dir
    /\ wpos' = [wpos EXCEPT ![r] = 0]
    /\ pc' = [pc EXCEPT ![r] = "write"]
    /\ UNCHANGED <<remote, tz, clock, events, idx, lines, stamps, ics_text, wtext, exc,
                   before, rpc, rino, seen>>

OpenTmpFails(r) ==
    /\ pc[r] = "open"
    /\ Fail(r, WriteError)
    /\ UNCHANGED <<remote, tz, clock, events, idx, lines, stamps, ics_text, wtext,
                   wino, wpos, dir, data, before, rpc, rino, seen>>

WriteTmp(r) ==
    /\ pc[r] = "write"
    /\ LET upto == Min(wpos[r] + ChunkLen, Len(wtext[r]))
           chunk == SubSeq(wtext[r], wpos[r] + 1, upto)
       IN  /\ data' = [data EXCEPT ![wino[r]] = WriteAt(@, wpos[r], chunk)]
           /\ wpos' = [wpos EXCEPT ![r] = upto]
           /\ IF upto = Len(wtext[r])
              THEN /\ wino' = [wino EXCEPT ![r] = 0]
                   /\ pc' = [pc EXCEPT ![r] = "replace"]
              ELSE UNCHANGED <<wino, pc>>
    /\ UNCHANGED <<remote, tz, clock, events, idx, lines, stamps, ics_text, wtext, exc,
                   dir, before, rpc, rino, seen>>

\* The failed write's exception is swallowed and the run goes on to the replace.
WriteTmpFailsSwallowed(r) ==
    /\ pc[r] = "write"
    /\ pc' = [pc EXCEPT ![r] = "replace"]
    /\ wino' = [wino EXCEPT ![r] = 0]
    /\ UNCHANGED <<remote, tz, clock, events, idx, lines, stamps, ics_text, wtext, exc,
                   wpos, dir, data, before, rpc, rino, seen>>

WriteTmpFails(r) ==
    /\ pc[r] = "write"
    /\ Fail(r, WriteError)
    /\ wino' = [wino EXCEPT ![r] = 0]
    /\ UNCHANGED <<remote, tz, clock, events, idx, lines, stamps, ics_text, wtext,
                   wpos, dir, data, before, rpc, rino, seen>>

\* os.replace(tmp, target): the target's directory entry is switched to the
\* temporary file's inode in one step; it fails when no file is at tmp.
Replace(r) ==
    /\ pc[r] = "replace"
    /\ IF dir[tmp_path] = 0
       THEN /\ Fail(r, WriteError)
            /\ UNCHANGED dir
       ELSE /\ dir' = [p \in Paths |->
                          IF p = "target" THEN dir[tmp_path]
                          ELSE IF p = tmp_path THEN 0 ELSE dir[p]]
            /\ pc' = [pc EXCEPT ![r] = "print"]
            /\ UNCHANGED exc
    /\ UNCHANGED <<remote, tz, clock, events, idx, lines, stamps, ics_text, wtext,
                   wino, wpos, data, before, rpc, rino, seen>>

ReplaceFails(r) ==
    /\ pc[r] = "replace"
    /\ Fail(r, WriteError)
    /\ UNCHANGED <<remote, tz, clock, events, idx, lines, stamps, ics_text, wtext,
                   wino, wpos, dir, data, before, rpc, rino, seen>>

\* write_calendar, line 107, and the return from main.
Finish(r) ==
    /\ pc[r] = "print"
    /\ pc' = [pc EXCEPT ![r] = "done"]
    /\ UNCHANGED <<remote, tz, clock, events, idx, lines, stamps, ics_text, wtext, exc,
                   wino, wpos, dir, data, before, rpc, rino, seen>>

\* The process's exit status: an uncaught exception ends it with status 1.
Exited(r) == pc[r] \in {"done", "failed"}
ExitStatus(r) == IF pc[r] = "done" THEN 0 ELSE 1

\* The host's clock advances.
Tick ==
    /\ clock < ClockStart + MaxTicks
    /\ clock' = clock + 1
    /\ UNCHANGED <<remote, tz, pc, events, idx, lines, stamps, ics_text, wtext, exc,
                   wino, wpos, dir, data, before, rpc, rino, seen>>

(***************************************************************************)
(* A reader of the target path: it opens the path, which binds it to the   *)
(* inode linked there at that moment, then reads that inode.               *)
(***************************************************************************)
ReaderOpen ==
    /\ rpc \in {"idle", "done"}
    /\ rino' = dir["target"]
    /\ rpc' = "opened"
    /\ UNCHANGED <<remote, tz, clock, pc, events, idx, lines, stamps, ics_text, wtext, exc,
                   wino, wpos, dir, data, before, seen>>

ReaderRead ==
    /\ rpc = "opened"
    /\ seen' = IF rino = 0 THEN Absent ELSE File(data[rino])
    /\ rpc' = "done"
    /\ UNCHANGED <<remote, tz, clock, pc, events, idx, lines, stamps, ics_text, wtext, exc,
                   wino, wpos, dir, data, before, rino>>

WriterStep(r) ==
    \/ Validate(r)
    \/ OpenTmp(r)
    \/ OpenTmpFails(r)
    \/ WriteTmp(r)
    \/ WriteTmpFails(r)
    \/ Replace(r)
    \/ ReplaceFails(r)
    \/ Finish(r)

Next ==
    \/ \E r \in Runs :
          \/ Mkdir(r)
          \/ MkdirFails(r)
          \/ Fetch(r)
          \/ FetchFails(r)
          \/ GenerateBegin(r)
          \/ GenerateEvent(r)
          \/ GenerateEnd(r)
          \/ WriterStep(r)
    \/ Tick

Spec == Init /\ [][Next]_vars

(***************************************************************************)
(* Two runs of main() on the same output directory, overlapping in time.   *)
(***************************************************************************)
InitOverlap ==
    /\ InitCommon
    /\ remote \in SeqsUpTo({JungleNight, MarkerTitle}, 1)
    /\ pc = [r \in Runs |-> "main"]
    /\ ics_text = [r \in Runs |-> <<>>]

SpecOverlap == InitOverlap /\ [][Next]_vars

(***************************************************************************)
(* One call of write_calendar(path, text), for any text, beside a reader.  *)
(***************************************************************************)
WriterTexts ==
    { <<>>,
      <<"VERSION:2.0", CR, LF, END_VCALENDAR>>,
      <<BEGIN_VCALENDAR, CR, LF, "VERSION:2.0", LF>>,
      <<"hello", LF>>,
      <<END_VCALENDAR, BEGIN_VCALENDAR>>,
      Join(Header \o << <<END_VCALENDAR>> >>, CRLF),
      Join(Header \o EventLines(JungleNight, ClockStart, 0).val \o << <<END_VCALENDAR>> >>, CRLF) \o <<LF>> }

InitWriter ==
    /\ InitCommon
    /\ remote = <<>>
    /\ pc = [r \in Runs |-> IF r = 1 THEN "validate" ELSE "idle"]
    /\ \E t \in WriterTexts : ics_text = [r \in Runs |-> IF r = 1 THEN t ELSE <<>>]

NextWriter ==
    \/ \E r \in Runs : WriterStep(r)
    \/ ReaderOpen
    \/ ReaderRead

SpecWriter == InitWriter /\ [][NextWriter]_vars


(***************************************************************************)
(* The properties.  The helper definitions of this section state what the  *)
(* specification says, independently of the operators above.               *)
(***************************************************************************)
Count(text, piece) == Cardinality({i \in 1..Len(text) : text[i] = piece})

\* A text the writer must reject: empty, or without one of the two markers.
Rejected(text) ==
    \/ text = <<>>
    \/ Count(text, BEGIN_VCALENDAR) = 0
    \/ Count(text, END_VCALENDAR) = 0

\* The complete new document of a call of write_calendar(path, text).
NewFile(text) == File(IF text[Len(text)] = LF THEN text ELSE text \o <<LF>>)

\* C1: during a call of write_calendar whose text passes the validation, the
\* file at the target path is at every moment the complete previous file (or
\* absent) or the complete new document, and so is the content of the inode a
\* reader has opened there and what its read returns.
C1_ReaderSeesOldOrNew ==
    ~Rejected(ics_text[1]) =>
        /\ FileAt("target") \in {before, NewFile(ics_text[1])}
        /\ (rpc = "opened" /\ rino # 0) => File(data[rino]) \in {before, NewFile(ics_text[1])}
        /\ rpc = "done" => seen \in {before, NewFile(ics_text[1])}

\* A reader has read the previous file while the temporary file was partly written.
C1_Witness ==
    /\ ~Rejected(ics_text[1])
    /\ pc[1] = "write"
    /\ wpos[1] > 0
    /\ rpc = "done"
    /\ before.exists
    /\ seen = before

\* C2: a call of write_calendar with a text that is empty or lacks a marker
\* changes no directory entry and no file content in any step, and ends, if
\* it ends, with the validation's ValueError.
C2_RejectedTextTouchesNothing ==
    [][Rejected(ics_text[1]) =>
          /\ dir' = dir
          /\ data' = data
          /\ pc'[1] \in {"validate", "failed"}
          /\ pc'[1] = "failed" => exc'[1].type = "ValueError"]_vars

\* A non-empty text that lacks a marker was rejected; the previous file is in place.
C2_Witness ==
    /\ Rejected(ics_text[1])
    /\ ics_text[1] # <<>>
    /\ pc[1] = "failed"
    /\ exc[1].type = "ValueError"
    /\ before.exists
    /\ FileAt("target") = before

WellFormed(e) ==
    /\ e.hasTitle
    /\ e.title # <<>>
    /\ e.hasId
    /\ e.date # None
    /\ e.date.start # None
AllWellFormed(evs) == \A k \in 1..Len(evs) : WellFormed(evs[k])

\* The k-th event block of a list of lines: from the k-th BEGIN:VEVENT line to
\* the first END:VEVENT line after it.
BlockStarts(ls) == {i \in 1..Len(ls) : ls[i] = <<"BEGIN:VEVENT">>}
BlockStart(ls, k) ==
    CHOOSE i \in BlockStarts(ls) : Cardinality({j \in BlockStarts(ls) : j <= i}) = k
BlockEnd(ls, k) ==
    CHOOSE i \in BlockStart(ls, k)..Len(ls) :
        /\ ls[i] = <<"END:VEVENT">>
        /\ \A j \in BlockStart(ls, k)..(i - 1) : ls[j] # <<"END:VEVENT">>
Block(ls, k) == SubSeq(ls, BlockStart(ls, k), BlockEnd(ls, k))

\* The UTC rendering of the start and of the end of the records, by identifier,
\* worked out by hand from their timestamps.
ExpectedStart(e) ==
    CASE e.uid = 42 -> "20251101T220000Z"
      [] e.uid = 7 -> "20251115T223000Z"
      [] e.uid = 8 -> "20251119T230059Z"
      [] e.uid = 9 -> "20251122T010000Z"
ExpectedEnd(e) ==
    CASE e.uid = 42 -> "20251102T020000Z"
      [] e.uid = 8 -> "20251120T030000Z"
      [] e.uid = 9 -> "20251122T060000Z"

\* The rendering of the UTC instant t of the clock (it starts at 22:00:00 UTC
\* on the 15th and advances by a few seconds).
ExpectedStamp(t) == "20251115T2200" \o Pad2(t - ClockStart) \o "Z"

\* The lines that can be a DTSTAMP line: a stamp of some clock reading, seen
\* from some UTC offset.
StampLines ==
    { <<"DTSTAMP:" \o strftime(t - 60 * z)>> :
        t \in ClockStart..(ClockStart + MaxTicks + 1), z \in HostOffsets \cup {0} }

\* The event block the specification prescribes for record e, given its stamp line.
ExpectedBlock(e, stampLine) ==
    << <<"BEGIN:VEVENT">>, <<"UID:" \o ToString(e.uid)>>, stampLine,
       <<"DTSTART:" \o ExpectedStart(e)>> >>
    \o (IF e.date.end # None THEN << <<"DTEND:" \o ExpectedEnd(e)>> >> ELSE <<>>)
    \o << <<"SUMMARY:">> \o e.title[1], <<"END:VEVENT">> >>

\* Run 1 failed in the loop of generate_ics, at record k.
FailedAtRecord(k) == pc[1] = "failed" /\ idx[1] = k /\ k \in 1..Len(events[1])

\* C4: for a record with a start and no end, generate_ics does not fail at it,
\* and its block is the six lines BEGIN:VEVENT, UID, DTSTAMP, DTSTART, SUMMARY,
\* END:VEVENT, with no DTEND line; a record with an end gets the seven lines,
\* the DTEND line once, after DTSTART.
C4_OpenEndedHasNoDtend ==
    \A k \in 1..Len(events[1]) :
        LET e == events[1][k]
        IN  WellFormed(e) =>
               /\ e.date.end = None => ~FailedAtRecord(k)
               /\ idx[1] > k =>
                     /\ Block(lines[1], k)[3] \in StampLines
                     /\ Block(lines[1], k) = ExpectedBlock(e, Block(lines[1], k)[3])

\* The document the specification prescribes for the records evs: the header,
\* the blocks in the order of the records, the footer; the stamp lines are
\* those of ls, the lines generate_ics built.
RECURSIVE ExpectedBlocks(_, _, _)
ExpectedBlocks(evs, ls, at) ==
    IF evs = <<>> THEN <<>>
    ELSE LET b == ExpectedBlock(evs[1], ls[at + 2])
         IN  b \o ExpectedBlocks(Tail(evs), ls, at + Len(b))
ExpectedDocument(evs, ls) ==
    Join(<< <<"BEGIN:VCALENDAR">>, <<"VERSION:2.0">>,
            <<"PRODID:-//DnB Events//Subscribed Calendar//EN">> >>
         \o ExpectedBlocks(evs, ls, 4)
         \o << <<"END:VCALENDAR">> >>, <<"\r", "\n">>)

Generated(r) == pc[r] \in {"validate", "open", "write", "replace", "print", "done"}

\* C6: for every sequence of well-formed records (the empty one included)
\* generate_ics returns, and what it returns is the three header lines, one
\* block per record in the order of the records, and the footer line.
C6_DocumentIsHeaderBlocksFooter ==
    AllWellFormed(remote) =>
        /\ \A k \in 1..Len(events[1]) : ~FailedAtRecord(k)
        /\ Generated(1) =>
              /\ \A i \in BlockStarts(lines[1]) : lines[1][i + 2] \in StampLines
              /\ ics_text[1] = ExpectedDocument(remote, lines[1])

\* C7: in the file a successful run leaves at the target path every line feed
\* follows a carriage return, and the file ends with one: every line, the last
\* one included, is terminated by CR LF.
C7_EveryLineEndsInCrLf ==
    pc[1] = "done" =>
        LET t == FileAt("target").text
        IN  /\ t[Len(t)] = LF
            /\ \A i \in 1..Len(t) : t[i] = LF => (i > 1 /\ t[i - 1] = CR)

\* C8: the DTSTAMP line of the k-th block is the rendering of the UTC instant
\* the clock read when the k-th record was transformed, whatever the host's
\* UTC offset; and its DTSTART line is the record's start, given with a Z or
\* an explicit offset, as the same instant in UTC.
C8_StampIsUtcNow ==
    \A k \in 1..Len(stamps[1]) :
        /\ Block(lines[1], k)[3] = <<"DTSTAMP:" \o ExpectedStamp(stamps[1][k])>>
        /\ Block(lines[1], k)[4] = <<"DTSTART:" \o ExpectedStart(events[1][k])>>

\* The title generate_ics inserts for record e contains the text of a marker.
TitleHasMarker(e) ==
    Count(e.title[1], "BEGIN:VCALENDAR") + Count(e.title[1], "END:VCALENDAR") > 0

\* The text has one opening marker, at its start, and one closing marker, at
\* its end: everything else, every event block, lies between them.
OneMarkerPair(text) ==
    /\ Count(text, "BEGIN:VCALENDAR") = 1
    /\ Count(text, "END:VCALENDAR") = 1
    /\ text[1] = "BEGIN:VCALENDAR"
    /\ text[Len(text)] = "END:VCALENDAR"

\* C9, as stated: whatever the titles, the text generate_ics returns has
\* exactly one opening and one closing marker, the event blocks between them.
C9_OneMarkerPairAnyTitle == Generated(1) => OneMarkerPair(ics_text[1])

\* C9, amended: when no title contains the text of a marker, the text
\* generate_ics returns has exactly one opening and one closing marker, the
\* event blocks between them (a line break in a title does not change that).
C9_OneMarkerPairPlainTitles ==
    (Generated(1) /\ \A k \in 1..Len(events[1]) : ~TitleHasMarker(events[1][k]))
        => OneMarkerPair(ics_text[1])

\* A document with two events, one of whose titles contains a line break.
C9_Witness ==
    /\ Generated(1)
    /\ Len(events[1]) = 2
    /\ \E k \in 1..2 : Count(events[1][k].title[1], CR) > 0
    /\ \A k \in 1..2 : ~TitleHasMarker(events[1][k])
    /\ OneMarkerPair(ics_text[1])


\* The first record of evs that lacks a required field.
HasMalformed(evs) == \E k \in 1..Len(evs) : ~WellFormed(evs[k])
FirstMalformed(evs) ==
    CHOOSE k \in 1..Len(evs) : ~WellFormed(evs[k]) /\ \A j \in 1..(k - 1) : WellFormed(evs[j])

\* The exception x identifies the k-th record of evs: it carries the record's
\* identifier, or its position in the sequence.
Identifies(x, evs, k) ==
    x.arg \in {ToString(k), ToString(k - 1)}
                 \cup (IF evs[k].hasId THEN {ToString(evs[k].uid)} ELSE {})

\* What a run that fetched a record without a required field leaves alone: no
\* text is returned, write_calendar is not entered, the loop does not pass the
\* record, the target is as before and no temporary file is written.
NothingGenerated ==
    /\ ~Generated(1)
    /\ ics_text[1] = <<>>
    /\ wtext[1] = <<>>
    /\ idx[1] <= FirstMalformed(events[1])
    /\ FileAt("target") = before
    /\ FileAt("tmp") \in {Absent, File(StaleTmp)}

\* C5, as stated: when a fetched record lacks a required field, nothing is
\* generated or written, and the error the run fails with at that record
\* identifies the record.
C5_FailFastIdentifyingRecord ==
    HasMalformed(events[1]) =>
        /\ NothingGenerated
        /\ FailedAtRecord(FirstMalformed(events[1])) =>
              Identifies(exc[1], events[1], FirstMalformed(events[1]))

\* C5, amended: when a fetched record lacks a required field, nothing is
\* generated or written, and the error the run fails with at that record is
\* the exception of the failed field read, which names the missing key or the
\* failed operation and not the record.
C5_FailFastWithLookupError ==
    HasMalformed(events[1]) =>
        /\ NothingGenerated
        /\ FailedAtRecord(FirstMalformed(events[1])) =>
              /\ exc[1].type \in {"KeyError", "IndexError", "TypeError", "AttributeError"}
              /\ exc[1].arg \in {"Event Name", "ID", "list index out of range", "replace",
                                 "'NoneType' object is not subscriptable"}
              /\ ~Identifies(exc[1], events[1], FirstMalformed(events[1]))

\* The second of two records has no title: the run has failed at it, after the
\* block of the first record was built, and no text was returned.
C5_Witness ==
    /\ Len(events[1]) = 2
    /\ WellFormed(events[1][1])
    /\ ~events[1][2].hasTitle
    /\ FailedAtRecord(2)
    /\ exc[1].type = "KeyError"
    /\ Len(lines[1]) > 3
    /\ ics_text[1] = <<>>
    /\ before.exists

\* C10: with two overlapping runs the file at the target path is at every
\* moment the previous file or the complete document of one of the runs, and
\* the inode linked at the target path is never one a run still has open for
\* writing.
C10_OverlappingRunsPublishCompleteFiles ==
    /\ FileAt("target") \in {before} \cup {File(wtext[r]) : r \in {q \in Runs : wtext[q] # <<>>}}
    /\ \A r \in Runs : wino[r] # 0 => dir["target"] # wino[r]

=============================================================================
